---- MODULE Spec2Model ----
(***************************************************************************)
(* A model of the fencing clip recorder (src/server.py, with the packet    *)
(* parser shared by src/fencing_recorder.py) and of the FA5 simulator of   *)
(* src/sim.py.                                                             *)
(*                                                                         *)
(* Spec is the recorder of server.py with each loop iteration as one step, *)
(* LiveSpec the same with records that keep arriving, ThreadSpec the same  *)
(* with save_video_clip split into the steps of its loop and with the      *)
(* manual-control loop, BufSpec and ClipSpec the frame buffer and the clip *)
(* extractor on their own, CodecSpec the wire format on its own,           *)
(* ReplaySpec the recorder of fencing_recorder.py with its test mode, and  *)
(* SimSpec and ScoreSpec the simulator's bout and its scores.              *)
(*                                                                         *)
(* Time is counted in whole seconds: `now` stands for time.time().  A      *)
(* Python None is the empty tuple <<>> and a value v that may be None is   *)
(* <<v>>.  A dict is a record, a bytes object a sequence of 0..255.        *)
(***************************************************************************)
EXTENDS Integers, Sequences, FiniteSets, TLC

VARIABLES
    running,               \* self.running
    fa5_serial,            \* self.fa5_serial is not None (port open)
    video_thread,          \* "none" | "alive" | "done" | "crashed"
    serial_thread,         \* "none" | "alive" | "done"
    width_bound,           \* the capture loop's local `width` has been assigned
    frames_read,           \* frames the camera has delivered so far
    video_buffer,          \* self.video_buffer: sequence of <<frame, timestamp>>
    last_timer,            \* self.last_timer
    recording_start_time,  \* self.recording_start_time
    currently_recording,   \* self.currently_recording
    last_packet,           \* self.last_packet
    now,                   \* time.time()
    packet,                \* the local `packet` (telemetry loop, simulator)
    data,                  \* the telemetry loop's local `data`
    log,                   \* what the last step did (its observable effects)
    nreads,                \* parity of the number of records read (LiveSpec only)
    sim,                   \* FA5Simulator.state
    main_thread,           \* where the thread that called start() is
    calls,                 \* the calls of save_video_clip in progress, by thread
    test_mode,             \* self.test_mode (fencing_recorder.py)
    test_data,             \* self.test_data (fencing_recorder.py)
    test_position,         \* self.test_position (fencing_recorder.py)
    simulated              \* _sim_timer, _left_score, _right_score (fencing_recorder.py)

\* The state of the test mode of fencing_recorder.py.
replay == <<test_mode, test_data, test_position, simulated>>

vars == <<running, fa5_serial, video_thread, serial_thread, width_bound,
          frames_read, video_buffer, last_timer, recording_start_time,
          currently_recording, last_packet, now, packet, data, log, nreads, sim,
          main_thread, calls, replay>>

None == <<>>
Some(v) == <<v>>

----------------------------------------------------------------------------
(* Bounds of the model.                                                    *)

\* The clock stops MaxTime seconds after start().
MaxTime == 17
\* The loops run in the first Early seconds and again once more than
\* TIMEOUT seconds have gone by (see Instants).
Early == 1
\* Frames the camera delivers in the recorder specification.
MaxFrames == 1
\* Frames appended in the ring-buffer specification beyond the capacity.
MaxOverflow == 3
\* In the ring-buffer specification two frames may share a timestamp
\* while the time is below BurstUntil.
BurstUntil == 1
\* Frames the camera delivers in the clip specification.
MaxClipFrames == 12
\* Frames the camera delivers in the specification of the threads.
MaxThreadFrames == 2
\* Packets simulate_realistic_packet generates in the test-mode specification.
MaxSimPackets == 4
\* The points each fencer scores at most in the simulator's bout (SimSpec),
\* and the right fencer in the long bout (ScoreSpec).
MaxHits == 1
\* The points the left fencer scores at most in the long bout: one past the
\* largest value a byte holds.
MaxScore == 256

(* Program constants.                                                      *)

\* deque(maxlen=1800)
maxlen == 1800
\* the 15 second timeout of detect_clip_events
TIMEOUT == 15
\* the one second of padding before and after a clip
PADDING == 1
\* the minimum number of frames of a clip
MIN_FRAMES == 10
\* the start marker of a packet
MARKER == 255
\* the length of a packet
PACKET_LEN == 10
\* the valid-hit bits of the lights byte (red, bit 2, and green, bit 3)
HIT_MASK == 12

----------------------------------------------------------------------------
(* Integer helpers.                                                        *)

\* Python's a & b on non-negative integers.
RECURSIVE BitAnd(_, _)
BitAnd(a, b) ==
    IF a = 0 \/ b = 0 THEN 0
    ELSE (a % 2) * (b % 2) + 2 * BitAnd(a \div 2, b \div 2)

\* sum(s) of a sequence of integers.
RECURSIVE SumSeq(_)
SumSeq(s) == IF s = <<>> THEN 0 ELSE s[1] + SumSeq(Tail(s))

----------------------------------------------------------------------------
(* The wire format: FA5Simulator.create_packet and parse_favero_packet.    *)

\* FencingState() of src/sim.py.
FencingState ==
    [left_score |-> 0, right_score |-> 0, minutes |-> 3, seconds |-> 0,
     lights |-> 0, matches |-> 1, cards |-> 0, timer_running |-> FALSE]

\* packet[9] = sum(packet[:9]) % 256
checksum(p) == SumSeq(SubSeq(p, 1, 9)) % 256

\* create_packet with the score bytes exchanged.
create_packet_swapped(s) ==
    LET body == <<MARKER, s.left_score, s.right_score, s.seconds, s.minutes,
                  s.lights, s.matches, 0, s.cards>>
    IN  Append(body, checksum(body))

\* create_packet: the ten bytes built from the simulator's state.
create_packet(s) ==
    LET body == <<MARKER, s.right_score, s.left_score, s.seconds, s.minutes,
                  s.lights, s.matches, 0, s.cards>>
    IN  Append(body, checksum(body))

\* parse_favero_packet without the checksum test.
parse_no_checksum(p) ==
    IF Len(p) /= PACKET_LEN \/ p[1] /= MARKER THEN None
    ELSE Some([right_score |-> p[2], left_score |-> p[3], seconds |-> p[4],
               minutes |-> p[5], lights |-> p[6], matches |-> p[7],
               cards |-> p[9]])

\* parse_favero_packet reading the cards from byte 7 instead of byte 8.
parse_cards_from_byte7(p) ==
    IF Len(p) /= PACKET_LEN \/ p[1] /= MARKER THEN None
    ELSE IF checksum(p) /= p[10] THEN None
    ELSE Some([right_score |-> p[2], left_score |-> p[3], seconds |-> p[4],
               minutes |-> p[5], lights |-> p[6], matches |-> p[7],
               cards |-> p[8]])

\* parse_favero_packet: the decoded dict, or None.  Python indexes from 0,
\* TLA+ from 1: packet[k] is p[k + 1].
parse_favero_packet(p) ==
    IF Len(p) /= PACKET_LEN \/ p[1] /= MARKER THEN None
    ELSE IF checksum(p) /= p[10] THEN None
    ELSE Some([right_score |-> p[2], left_score |-> p[3], seconds |-> p[4],
               minutes |-> p[5], lights |-> p[6], matches |-> p[7],
               cards |-> p[9]])

----------------------------------------------------------------------------
(* The ring buffer: deque(maxlen=1800) and the window query of             *)
(* save_video_clip.                                                        *)

\* deque.append that drops the newest entry of a full deque instead of the oldest.
deque_append_drop_newest(buf, e) ==
    IF Len(buf) >= maxlen THEN buf ELSE Append(buf, e)

\* self.video_buffer.append(e) on a deque(maxlen=1800): a full deque drops
\* its oldest entry.
deque_append(buf, e) ==
    IF Len(buf) >= maxlen THEN Append(Tail(buf), e) ELSE Append(buf, e)

\* The window test with an exclusive upper end.
in_window_open_end(timestamp, buffer_start, buffer_end) ==
    buffer_start <= timestamp /\ timestamp < buffer_end

\* buffer_start <= timestamp <= buffer_end
in_window(timestamp, buffer_start, buffer_end) ==
    buffer_start <= timestamp /\ timestamp <= buffer_end

\* The loop of save_video_clip over the buffer: the frames, in buffer order,
\* of the entries whose timestamp is in the window.
clip_frames(buf, buffer_start, buffer_end) ==
    LET kept == SelectSeq(buf, LAMBDA e : in_window(e[2], buffer_start, buffer_end))
    IN  [i \in 1..Len(kept) |-> kept[i][1]]

\* save_video_clip with the second of padding taken off the end of the
\* window instead of added to it.
save_video_clip_end_minus_padding(start_time, end_time, score_data) ==
    LET buffer_start == start_time - PADDING
        buffer_end == end_time - PADDING
        frames == clip_frames(video_buffer, buffer_start, buffer_end)
    IN  [start_time |-> start_time, end_time |-> end_time,
         score_data |-> score_data,
         buffer_start |-> buffer_start, buffer_end |-> buffer_end,
         frames |-> frames, encoded |-> Len(frames) >= MIN_FRAMES,
         written |-> IF Len(frames) < MIN_FRAMES THEN <<>> ELSE frames]

\* save_video_clip giving up on a window of ten frames too.
save_video_clip_abort_at_ten(start_time, end_time, score_data) ==
    LET buffer_start == start_time - PADDING
        buffer_end == end_time + PADDING
        frames == clip_frames(video_buffer, buffer_start, buffer_end)
    IN  [start_time |-> start_time, end_time |-> end_time,
         score_data |-> score_data,
         buffer_start |-> buffer_start, buffer_end |-> buffer_end,
         frames |-> frames, encoded |-> Len(frames) > MIN_FRAMES,
         written |-> IF Len(frames) > MIN_FRAMES THEN frames ELSE <<>>]

\* save_video_clip(start_time, end_time, score_data) when it returns: the
\* window, the frames found, whether the encoder was invoked (a VideoWriter
\* opened on the clip's file) and the frames written to it.  With fewer than
\* ten frames it returns before the encoder, once and for all.
save_video_clip(start_time, end_time, score_data) ==
    LET buffer_start == start_time - PADDING
        buffer_end == end_time + PADDING
        frames == clip_frames(video_buffer, buffer_start, buffer_end)
    IN  [start_time |-> start_time, end_time |-> end_time,
         score_data |-> score_data,
         buffer_start |-> buffer_start, buffer_end |-> buffer_end,
         frames |-> frames, encoded |-> Len(frames) >= MIN_FRAMES,
         written |-> IF Len(frames) < MIN_FRAMES THEN <<>> ELSE frames]

----------------------------------------------------------------------------
(* The event detector: detect_clip_events.                                 *)

\* current_timer = (data['minutes'] * 60) + data['seconds']
current_timer(d) == d.minutes * 60 + d.seconds

\* hit_detected = lights & 0x0C
hit_detected(d) == BitAnd(d.lights, HIT_MASK)

\* The start test comparing with <= instead of <.
StartCond_le(d) ==
    /\ last_timer /= None
    /\ current_timer(d) <= last_timer[1]
    /\ ~currently_recording

\* The start test taking a missing previous clock for a clock that dropped.
StartCond_no_previous(d) ==
    /\ (last_timer = None \/ current_timer(d) < last_timer[1])
    /\ ~currently_recording

\* The condition of the START branch.
StartCond(d) ==
    /\ last_timer /= None
    /\ current_timer(d) < last_timer[1]
    /\ ~currently_recording

\* The END test giving way to the timeout when both apply.
HitEndCond_unless_timeout(d) ==
    /\ hit_detected(d) /= 0
    /\ currently_recording
    /\ ~(/\ last_timer = Some(current_timer(d))
         /\ now - recording_start_time[1] > TIMEOUT)

\* The condition of the END branch (reached when StartCond fails).
HitEndCond(d) == hit_detected(d) /= 0 /\ currently_recording

\* The condition of the TIMEOUT branch (reached when both others fail).
TimeoutCond(d) ==
    /\ last_timer = Some(current_timer(d))
    /\ currently_recording
    /\ now - recording_start_time[1] > TIMEOUT

\* The type of the last lifecycle event emitted up to the current state
\* ("None" if there was none yet).
last_event ==
    IF log.events /= <<>> THEN log.events[Len(log.events)].type
    ELSE log.previous

\* The effects of a step: which operation ran, whether detect_clip_events was
\* called, the lifecycle events it emitted, the call of save_video_clip it
\* made and whether that call raised; and the type of the last lifecycle
\* event emitted before the step.
Effects(op, detect, events, clip, raised) ==
    [op |-> op, detect |-> detect, events |-> events, clip |-> clip,
     raised |-> raised, previous |-> last_event]
NoEffects(op) == Effects(op, FALSE, <<>>, None, FALSE)
\* The effects of construction: nothing done, no event emitted yet.
InitialEffects(op) ==
    [op |-> op, detect |-> FALSE, events |-> <<>>, clip |-> None,
     raised |-> FALSE, previous |-> "None"]

ActionStarted == [type |-> "ActionStarted", reason |-> "ClockRunning"]
ActionEnded(reason) == [type |-> "ActionEnded", reason |-> reason]

\* Whether detect_clip_events(d) calls save_video_clip.
Saves(d) == ~StartCond(d) /\ (HitEndCond(d) \/ TimeoutCond(d))

\* detect_clip_events starting an action without noting when.
detect_clip_events_no_start_time(d, fail) ==
    IF StartCond(d) THEN
        /\ currently_recording' = TRUE
        /\ last_timer' = Some(current_timer(d))
        /\ log' = Effects("serial", TRUE, <<ActionStarted>>, None, FALSE)
        /\ UNCHANGED recording_start_time
    ELSE IF HitEndCond(d) \/ TimeoutCond(d) THEN
        LET reason == IF HitEndCond(d) THEN "HitDetected" ELSE "Timeout"
            call == save_video_clip(recording_start_time[1], now, d)
        IN  /\ log' = Effects("serial", TRUE, <<ActionEnded(reason)>>,
                              Some(call), fail)
            /\ IF fail
               THEN UNCHANGED <<currently_recording, last_timer>>
               ELSE /\ currently_recording' = FALSE
                    /\ last_timer' = Some(current_timer(d))
            /\ UNCHANGED recording_start_time
    ELSE
        /\ last_timer' = Some(current_timer(d))
        /\ log' = Effects("serial", TRUE, <<>>, None, FALSE)
        /\ UNCHANGED <<recording_start_time, currently_recording>>

\* detect_clip_events going Idle only when a clip was written.
detect_clip_events_idle_if_saved(d, fail) ==
    IF StartCond(d) THEN
        /\ recording_start_time' = Some(now)
        /\ currently_recording' = TRUE
        /\ last_timer' = Some(current_timer(d))
        /\ log' = Effects("serial", TRUE, <<ActionStarted>>, None, FALSE)
    ELSE IF HitEndCond(d) \/ TimeoutCond(d) THEN
        LET reason == IF HitEndCond(d) THEN "HitDetected" ELSE "Timeout"
            call == save_video_clip(recording_start_time[1], now, d)
        IN  /\ log' = Effects("serial", TRUE, <<ActionEnded(reason)>>,
                              Some(call), fail)
            /\ IF fail
               THEN UNCHANGED <<currently_recording, last_timer>>
               ELSE /\ currently_recording' = ~call.encoded
                    /\ last_timer' = Some(current_timer(d))
            /\ UNCHANGED recording_start_time
    ELSE
        /\ last_timer' = Some(current_timer(d))
        /\ log' = Effects("serial", TRUE, <<>>, None, FALSE)
        /\ UNCHANGED <<recording_start_time, currently_recording>>

\* detect_clip_events with the END test in an `if` of its own instead of an
\* `elif`: a snapshot that starts an action and carries a valid hit ends it
\* at once.
detect_clip_events_if_for_elif(d, fail) ==
    IF StartCond(d) /\ hit_detected(d) /= 0 THEN
        /\ recording_start_time' = Some(now)
        /\ currently_recording' = FALSE
        /\ last_timer' = Some(current_timer(d))
        /\ log' = Effects("serial", TRUE,
                          <<ActionStarted, ActionEnded("HitDetected")>>,
                          Some(save_video_clip(now, now, d)), FALSE)
    ELSE IF StartCond(d) THEN
        /\ recording_start_time' = Some(now)
        /\ currently_recording' = TRUE
        /\ last_timer' = Some(current_timer(d))
        /\ log' = Effects("serial", TRUE, <<ActionStarted>>, None, FALSE)
    ELSE IF HitEndCond(d) \/ TimeoutCond(d) THEN
        LET reason == IF HitEndCond(d) THEN "HitDetected" ELSE "Timeout"
            call == save_video_clip(recording_start_time[1], now, d)
        IN  /\ log' = Effects("serial", TRUE, <<ActionEnded(reason)>>,
                              Some(call), fail)
            /\ IF fail
               THEN UNCHANGED <<currently_recording, last_timer>>
               ELSE /\ currently_recording' = FALSE
                    /\ last_timer' = Some(current_timer(d))
            /\ UNCHANGED recording_start_time
    ELSE
        /\ last_timer' = Some(current_timer(d))
        /\ log' = Effects("serial", TRUE, <<>>, None, FALSE)
        /\ UNCHANGED <<recording_start_time, currently_recording>>

\* detect_clip_events(d).  With `fail`, save_video_clip raises and the
\* exception leaves detect_clip_events before the statements after the call.
detect_clip_events(d, fail) ==
    IF StartCond(d) THEN
        /\ recording_start_time' = Some(now)
        /\ currently_recording' = TRUE
        /\ last_timer' = Some(current_timer(d))
        /\ log' = Effects("serial", TRUE, <<ActionStarted>>, None, FALSE)
    ELSE IF HitEndCond(d) \/ TimeoutCond(d) THEN
        LET reason == IF HitEndCond(d) THEN "HitDetected" ELSE "Timeout"
            call == save_video_clip(recording_start_time[1], now, d)
        IN  /\ log' = Effects("serial", TRUE, <<ActionEnded(reason)>>,
                              Some(call), fail)
            /\ IF fail
               THEN UNCHANGED <<currently_recording, last_timer>>
               ELSE /\ currently_recording' = FALSE
                    /\ last_timer' = Some(current_timer(d))
            /\ UNCHANGED recording_start_time
    ELSE
        /\ last_timer' = Some(current_timer(d))
        /\ log' = Effects("serial", TRUE, <<>>, None, FALSE)
        /\ UNCHANGED <<recording_start_time, currently_recording>>

----------------------------------------------------------------------------
(* The telemetry loop: serial_monitoring_loop.                             *)

\* The test of the loop without the comparison with the last packet.
NewData_no_dedup(d) == d /= None

\* if data and data != self.last_packet
NewData(d) == d /= None /\ d /= last_packet

\* One iteration of the loop that reads the record p (an iteration that
\* finds fewer than ten bytes waiting changes nothing).  save_video_clip can
\* raise RuntimeError (deque mutated during iteration) when the capture
\* thread appends while it iterates over the buffer: `fail` is that
\* outcome, possible while the capture thread is alive.  The loop's except
\* clause catches it and last_packet is not assigned.
serial_monitoring_loop(p, fail) ==
    /\ running /\ fa5_serial /\ serial_thread = "alive"
    /\ packet' = p
    /\ data' = parse_favero_packet(p)
    /\ LET d == parse_favero_packet(p) IN
       IF NewData(d) THEN
           /\ fail => Saves(d[1]) /\ video_thread = "alive"
           /\ detect_clip_events(d[1], fail)
           /\ last_packet' = IF fail THEN last_packet ELSE d
       ELSE
           /\ ~fail
           /\ log' = NoEffects("serial")
           /\ UNCHANGED <<last_timer, recording_start_time, currently_recording,
                          last_packet>>
    /\ UNCHANGED <<running, fa5_serial, video_thread, serial_thread, width_bound,
                   frames_read, video_buffer, now, sim, main_thread, calls,
                   replay>>

----------------------------------------------------------------------------
(* The capture loop: video_capture_loop.                                   *)

\* One iteration of the loop, the quit key not being pressed.  camera.read()
\* fails (ret is False) and the loop breaks, or it delivers a frame.  The
\* recording indicator reads the local `width`, which is assigned only
\* further down, at the end of the first iteration that gets there:
\* UnboundLocalError ends the thread.
video_capture_loop(ret) ==
    /\ running /\ video_thread = "alive"
    /\ IF ~ret THEN
           /\ video_thread' = "done"
           /\ UNCHANGED <<frames_read, video_buffer, width_bound>>
       ELSE
           /\ frames_read' = frames_read + 1
           /\ IF currently_recording /\ ~width_bound THEN
                  /\ video_thread' = "crashed"
                  /\ UNCHANGED <<video_buffer, width_bound>>
              ELSE
                  /\ video_buffer' =
                         deque_append(video_buffer, <<frames_read + 1, now>>)
                  /\ width_bound' = TRUE
                  /\ UNCHANGED video_thread
    /\ log' = NoEffects("capture")
    /\ UNCHANGED <<running, fa5_serial, serial_thread, last_timer,
                   recording_start_time, currently_recording, last_packet, now,
                   packet, data, nreads, sim, main_thread, calls, replay>>

----------------------------------------------------------------------------
(* start(), the passage of time, and the records the device sends.         *)

\* start() going on into the manual-control loop with a port too.
start_manual_with_port(connected) ==
    /\ ~running /\ video_thread = "none"
    /\ fa5_serial' = connected
    /\ running' = TRUE
    /\ video_thread' = "alive"
    /\ serial_thread' = IF connected THEN "alive" ELSE "none"
    /\ main_thread' = "manual"
    /\ log' = NoEffects("start")
    /\ UNCHANGED <<width_bound, frames_read, video_buffer, last_timer,
                   recording_start_time, currently_recording, last_packet, now,
                   packet, data, nreads, sim, calls, replay>>

\* start(): connect_scoring_machine opens the port or fails, the capture
\* thread is created, the telemetry thread only with a port; without a port
\* the calling thread goes on into the manual-control loop, with one it
\* returns.
start(connected) ==
    /\ ~running /\ video_thread = "none"
    /\ fa5_serial' = connected
    /\ running' = TRUE
    /\ video_thread' = "alive"
    /\ serial_thread' = IF connected THEN "alive" ELSE "none"
    /\ main_thread' = IF connected THEN "returned" ELSE "manual"
    /\ log' = NoEffects("start")
    /\ UNCHANGED <<width_bound, frames_read, video_buffer, last_timer,
                   recording_start_time, currently_recording, last_packet, now,
                   packet, data, nreads, sim, calls, replay>>

\* The instants, in seconds since start(), at which the threads look at the
\* clock: the first seconds, and the seconds after a stretch longer than the
\* timeout in which no thread runs.
Instants == {t \in 0..MaxTime : t <= Early \/ t > TIMEOUT}

\* Time passes until the next instant.
Tick ==
    /\ running
    /\ \E t \in Instants :
        /\ t > now
        /\ \A u \in Instants : u > now => t <= u
        /\ now' = t
    /\ log' = NoEffects("tick")
    /\ UNCHANGED <<running, fa5_serial, video_thread, serial_thread, width_bound,
                   frames_read, video_buffer, last_timer, recording_start_time,
                   currently_recording, last_packet, packet, data, nreads, sim,
                   main_thread, calls, replay>>

\* The clocks and lights of the records the device sends.
DeviceClocks == {<<3, 0>>, <<2, 59>>}
DeviceLights == {0, 1, 4, 8}
DeviceStates ==
    {[FencingState EXCEPT !.minutes = c[1], !.seconds = c[2], !.lights = l] :
        c \in DeviceClocks, l \in DeviceLights}

\* A record with its checksum byte off by one.
BadChecksum(p) == [p EXCEPT ![10] = (p[10] + 1) % 256]
\* A record with its reserved byte 7 set (and the checksum that goes with it).
Reserved7(p) == [p EXCEPT ![8] = 1, ![10] = (p[10] + 1) % 256]
\* A record read out of step: its bytes rotated by one.
Misaligned(p) == Append(Tail(p), p[1])

\* Ten-byte reads the transport delivers.
Records ==
    {create_packet(s) : s \in DeviceStates}
    \cup {BadChecksum(create_packet(FencingState)),
          Misaligned(create_packet(FencingState)),
          Reserved7(create_packet(FencingState))}

\* The threads that call save_video_clip: the telemetry thread and the
\* thread that called start(), from its manual-control loop.
Threads == {"serial", "main"}
\* No call of save_video_clip is in progress.
NoCalls == [t \in Threads |-> None]
\* server.py has no test mode; in fencing_recorder.py test_mode is False,
\* test_data None, test_position 0 and _sim_timer not yet an attribute.
NoTestMode ==
    /\ test_mode = FALSE
    /\ test_data = None
    /\ test_position = 0
    /\ simulated = None

Init ==
    /\ running = FALSE
    /\ fa5_serial = FALSE
    /\ video_thread = "none"
    /\ serial_thread = "none"
    /\ width_bound = FALSE
    /\ frames_read = 0
    /\ video_buffer = <<>>
    /\ last_timer = None
    /\ recording_start_time = None
    /\ currently_recording = FALSE
    /\ last_packet = None
    /\ now = 0
    /\ packet = None
    /\ data = None
    /\ log = InitialEffects("init")
    /\ nreads = 0
    /\ sim = FencingState
    /\ main_thread = "init"
    /\ calls = NoCalls
    /\ NoTestMode

\* The camera delivers at most `most` frames.
CameraDelivers(ret, most) == ret => frames_read < most

\* An iteration of the capture loop in the recorder specification.
Capture(ret) == CameraDelivers(ret, MaxFrames) /\ video_capture_loop(ret)

\* An iteration of the telemetry loop, the records read not being counted.
Read(p, fail) == serial_monitoring_loop(p, fail) /\ UNCHANGED nreads

Next ==
    \/ \E connected \in BOOLEAN : start(connected)
    \/ \E ret \in BOOLEAN : Capture(ret)
    \/ \E p \in Records, fail \in BOOLEAN : Read(p, fail)
    \/ Tick

Spec == Init /\ [][Next]_vars

----------------------------------------------------------------------------
(* The wire format on its own: create_packet and parse_favero_packet       *)
(* applied to simulator states and to byte strings drawn from bounded sets. *)

\* Byte values of the simulator states that are encoded.
EncoderBytes == {0, 128, 255}
EncoderStates ==
    {[left_score |-> l, right_score |-> r, minutes |-> m, seconds |-> sec,
      lights |-> li, matches |-> ma, cards |-> ca, timer_running |-> FALSE] :
        l \in EncoderBytes, r \in EncoderBytes, m \in EncoderBytes,
        sec \in EncoderBytes, li \in EncoderBytes, ma \in EncoderBytes,
        ca \in EncoderBytes}

\* Byte strings handed to the parser: well-formed records, with and without
\* the reserved byte set, the same with one byte overwritten, cut short by
\* one byte, with one byte more, and the empty string.
WireBytes == {0, 255}
WireStates ==
    {[left_score |-> l, right_score |-> r, minutes |-> m, seconds |-> sec,
      lights |-> li, matches |-> ma, cards |-> ca, timer_running |-> FALSE] :
        l \in WireBytes, r \in WireBytes, m \in WireBytes, sec \in WireBytes,
        li \in WireBytes, ma \in WireBytes, ca \in WireBytes}
WellFormed ==
    {create_packet(s) : s \in WireStates}
    \cup {Reserved7(create_packet(s)) : s \in WireStates}
WireInputs ==
    WellFormed
    \cup {[p EXCEPT ![i] = v] : p \in WellFormed, i \in 1..10, v \in {0, 1, 255}}
    \cup {SubSeq(p, 1, 9) : p \in WellFormed}
    \cup {Append(p, 0) : p \in WellFormed}
    \cup {<<>>}

CodecInit ==
    /\ running = FALSE
    /\ fa5_serial = FALSE
    /\ video_thread = "none"
    /\ serial_thread = "none"
    /\ width_bound = FALSE
    /\ frames_read = 0
    /\ video_buffer = <<>>
    /\ last_timer = None
    /\ recording_start_time = None
    /\ currently_recording = FALSE
    /\ last_packet = None
    /\ now = 0
    /\ data = None
    /\ log = InitialEffects("init")
    /\ nreads = 0
    /\ main_thread = "init"
    /\ calls = NoCalls
    /\ NoTestMode
    /\ \/ sim \in EncoderStates /\ packet = <<>>
       \/ sim = FencingState /\ packet \in WireInputs

CodecFrame ==
    UNCHANGED <<running, fa5_serial, video_thread, serial_thread, width_bound,
                frames_read, video_buffer, last_timer, recording_start_time,
                currently_recording, last_packet, now, nreads, sim, main_thread,
                calls, replay>>

\* packet = sim.create_packet()
CodecCreate ==
    /\ log.op = "init"
    /\ packet' = create_packet(sim)
    /\ data' = None
    /\ log' = NoEffects("create_packet")
    /\ CodecFrame

\* data = parse_favero_packet(packet)
CodecParse ==
    /\ log.op \in {"init", "create_packet"}
    /\ data' = parse_favero_packet(packet)
    /\ log' = NoEffects(IF log.op = "init" THEN "parse" ELSE "create_packet;parse")
    /\ UNCHANGED packet
    /\ CodecFrame

CodecNext == CodecCreate \/ CodecParse

CodecSpec == CodecInit /\ [][CodecNext]_vars

Parsed == log.op \in {"parse", "create_packet;parse"}

\* C1: parse_favero_packet returns None exactly for the byte strings whose
\* length is not 10, whose byte 0 is not 0xFF, or whose byte 9 is not the sum
\* of bytes 0..8 modulo 256; every other byte string is accepted.
C1_ParseRejectsExactlyMalformed ==
    Parsed =>
        (data = None <=>
            \/ Len(packet) /= 10
            \/ packet[1] /= 255
            \/ packet[10] /= (packet[1] + packet[2] + packet[3] + packet[4]
                              + packet[5] + packet[6] + packet[7] + packet[8]
                              + packet[9]) % 256)

\* A ten-byte record with the marker, rejected for its checksum alone.
C1_Witness ==
    /\ Parsed
    /\ Len(packet) = 10
    /\ packet[1] = 255
    /\ data = None

\* C2: an accepted record decodes to right_score = byte 1, left_score = byte 2,
\* seconds = byte 3, minutes = byte 4, lights = byte 5, matches = byte 6 and
\* cards = byte 8, and the same record with any other byte 7 (and the
\* checksum that goes with it) decodes to the same snapshot.
C2_FieldsByPosition ==
    (Parsed /\ data /= None) =>
        /\ data[1] = [right_score |-> packet[2], left_score |-> packet[3],
                      seconds |-> packet[4], minutes |-> packet[5],
                      lights |-> packet[6], matches |-> packet[7],
                      cards |-> packet[9]]
        /\ \A b7 \in {0, 1, 255} :
            LET other == [packet EXCEPT
                              ![8] = b7,
                              ![10] = (packet[10] - packet[8] + b7) % 256]
            IN  parse_favero_packet(other) = data

\* An accepted record whose byte 7 is set and differs from its byte 8.
C2_Witness ==
    /\ Parsed
    /\ data /= None
    /\ packet[8] /= 0
    /\ packet[8] /= packet[9]

\* C3: for a simulator state with its seven fields in 0..255, create_packet
\* gives a record that parse_favero_packet accepts and that decodes to those
\* seven values.
C3_RoundTrip ==
    log.op = "create_packet;parse" =>
        /\ Len(packet) = 10
        /\ data /= None
        /\ data[1].right_score = sim.right_score
        /\ data[1].left_score = sim.left_score
        /\ data[1].seconds = sim.seconds
        /\ data[1].minutes = sim.minutes
        /\ data[1].lights = sim.lights
        /\ data[1].matches = sim.matches
        /\ data[1].cards = sim.cards

\* A round trip of a state whose scores differ and whose bytes sum past 255.
C3_Witness ==
    /\ log.op = "create_packet;parse"
    /\ data /= None
    /\ sim.right_score = 255
    /\ sim.left_score = 0
    /\ sim.cards = 128

----------------------------------------------------------------------------
(* The detector driven by the telemetry loop (Spec).                       *)

\* The step was an iteration of the telemetry loop.
SerialStep == log'.op = "serial"
\* It read an accepted record that differs from the last stored snapshot,
\* so detect_clip_events ran on data'.
Processed == SerialStep /\ log'.detect
\* The combined clock of the snapshot just read.
ClockRead == data'[1].minutes * 60 + data'[1].seconds
\* Bit 2 or bit 3 of the lights of the snapshot just read is set.
HitRead == (data'[1].lights \div 4) % 4 /= 0

\* C4: when the loop reads an accepted record whose snapshot equals the last
\* stored snapshot, detect_clip_events is not run, no event is emitted, and
\* last_timer, currently_recording and recording_start_time stay as they are.
C4_DuplicateSuppressed ==
    [][(SerialStep /\ data' /= None /\ data' = last_packet) =>
          /\ ~log'.detect
          /\ log'.events = <<>>
          /\ log'.clip = None
          /\ UNCHANGED <<last_timer, currently_recording, recording_start_time,
                         last_packet>>]_vars

\* A duplicate read while Recording, with the clock unchanged and more than
\* the timeout elapsed.
C4_Witness ==
    /\ log.op = "serial"
    /\ data /= None
    /\ data = last_packet
    /\ ~log.detect
    /\ currently_recording
    /\ now - recording_start_time[1] > TIMEOUT

\* C5: a processed snapshot takes the detector from Idle to Recording,
\* emitting ActionStarted and setting recording_start_time to the current
\* time, exactly when a previous clock p is known, the detector is Idle and
\* the snapshot's clock c is below p; with c >= p nothing starts, and while
\* Recording no ActionStarted is emitted and recording_start_time stays.
C5_StartDetection ==
    [][Processed =>
          LET started == \E i \in DOMAIN log'.events :
                             log'.events[i].type = "ActionStarted"
          IN  /\ started <=>
                    /\ ~currently_recording
                    /\ last_timer /= None
                    /\ ClockRead < last_timer[1]
              /\ started <=> (~currently_recording /\ currently_recording')
              /\ started => /\ log'.events = <<ActionStarted>>
                            /\ recording_start_time' = Some(now)
              /\ ~started => recording_start_time' = recording_start_time]_vars

\* Clocks 180 then 179 from Idle: the action has started at the current time.
C5_Witness ==
    /\ log.op = "serial"
    /\ log.events = <<ActionStarted>>
    /\ currently_recording
    /\ recording_start_time = Some(now)
    /\ last_timer = Some(179)
    /\ now > 0

\* C6, as the specification states it: a processed snapshot with a valid-hit
\* bit, received while Recording, emits ActionEnded with reason HitDetected,
\* hands the snapshot to the clip extractor and leaves the detector Idle.
C6_HitEndsRecording ==
    [][(Processed /\ currently_recording /\ HitRead) =>
          /\ log'.events = <<ActionEnded("HitDetected")>>
          /\ log'.clip /= None
          /\ log'.clip[1].score_data = data'[1]
          /\ ~currently_recording']_vars

\* C7, as the specification states it: while Recording since T, a processed
\* snapshot without a valid-hit bit whose clock equals the previous clock
\* emits ActionEnded with reason Timeout and leaves the detector Idle if more
\* than 15 seconds have passed since T, and otherwise emits nothing and
\* leaves it Recording.
C7_TimeoutAfter15 ==
    [][(/\ Processed
        /\ currently_recording
        /\ ~HitRead
        /\ last_timer = Some(ClockRead)) =>
          IF now - recording_start_time[1] > 15
          THEN /\ log'.events = <<ActionEnded("Timeout")>>
               /\ ~currently_recording'
          ELSE /\ log'.events = <<>>
               /\ currently_recording']_vars

\* The record just read is one the decoder rejects: not ten bytes, no 0xFF
\* in byte 0, or a byte 9 that is not the sum of bytes 0..8 modulo 256.
MalformedRead ==
    /\ SerialStep
    /\ \/ Len(packet') /= 10
       \/ packet'[1] /= 255
       \/ packet'[10] /= (packet'[1] + packet'[2] + packet'[3] + packet'[4]
                          + packet'[5] + packet'[6] + packet'[7] + packet'[8]
                          + packet'[9]) % 256

\* C13, as the specification states it: when save_video_clip raises while an
\* ActionEnded is handled, the detector is Idle afterwards, last_timer and
\* last_packet hold the values of the snapshot that ended the action, and
\* the buffer is as it was.
C13_FailureKeepsTransition ==
    [][(Processed /\ log'.raised) =>
          /\ ~currently_recording'
          /\ last_timer' = Some(ClockRead)
          /\ last_packet' = data'
          /\ video_buffer' = video_buffer]_vars

\* C14: when the loop reads a record the decoder rejects, last_timer,
\* last_packet, currently_recording, recording_start_time and the buffer
\* stay as they are, the detector is not run, no event is emitted, no clip
\* is extracted, and the loop is still running, ready for the next record.
C14_MalformedChangesNothing ==
    [][MalformedRead =>
          /\ data' = None
          /\ UNCHANGED <<last_timer, last_packet, currently_recording,
                         recording_start_time, video_buffer>>
          /\ ~log'.detect
          /\ log'.events = <<>>
          /\ log'.clip = None
          /\ ~log'.raised
          /\ running' /\ fa5_serial' /\ serial_thread' = "alive"]_vars

\* A ten-byte record with a wrong checksum was read while Recording, a
\* snapshot being stored.
C14_Witness ==
    /\ log.op = "serial"
    /\ data = None
    /\ Len(packet) = 10
    /\ packet[1] = 255
    /\ currently_recording
    /\ last_packet /= None
    /\ Len(video_buffer) = 1

\* C17, as the specification states it: after detect_clip_events has run on
\* a snapshot, whatever branch it took and whether or not the extraction
\* succeeded, last_timer is the snapshot's combined clock and last_packet
\* the snapshot.
C17_SnapshotAlwaysStored ==
    [][Processed =>
          /\ last_timer' = Some(ClockRead)
          /\ last_packet' = data']_vars

\* C19: a processed snapshot emits at most one event; one that arrives while
\* Idle with a clock below the previous one and a valid-hit bit set emits
\* ActionStarted alone, extracts no clip and leaves the detector Recording.
C19_AtMostOneEvent ==
    [][Processed =>
          /\ Len(log'.events) <= 1
          /\ (/\ ~currently_recording
              /\ last_timer /= None
              /\ ClockRead < last_timer[1]
              /\ HitRead) =>
                 /\ log'.events = <<ActionStarted>>
                 /\ log'.clip = None
                 /\ currently_recording']_vars

\* Clocks 180 then 179, the second record with the red light on: the action
\* has started and has not ended.
C19_Witness ==
    /\ log.op = "serial"
    /\ log.events = <<ActionStarted>>
    /\ data /= None
    /\ data[1].lights = 4
    /\ last_timer = Some(179)
    /\ currently_recording

\* C20: the first snapshot the detector processes (no snapshot is stored
\* yet) emits no event, extracts no clip, leaves the detector Idle and sets
\* last_timer to its combined clock, whatever its lights.
C20_FirstSnapshotNoEvent ==
    [][(Processed /\ last_packet = None) =>
          /\ last_timer = None
          /\ log'.events = <<>>
          /\ log'.clip = None
          /\ ~currently_recording'
          /\ recording_start_time' = None
          /\ last_timer' = Some(ClockRead)]_vars

\* A snapshot with the green light on and the clock at 2:59 has been
\* processed, and no action has ever started.
C20_Witness ==
    /\ log.op = "serial"
    /\ log.detect
    /\ log.events = <<>>
    /\ data /= None
    /\ data[1].lights = 8
    /\ last_packet = data
    /\ last_timer = Some(179)
    /\ recording_start_time = None
    /\ ~currently_recording

\* C21: while Recording, a processed snapshot that has a valid-hit bit set
\* and the clock of the previous snapshot, more than 15 seconds after the
\* recording started, emits one event, ActionEnded with reason HitDetected.
C21_HitBeforeTimeout ==
    [][(/\ Processed
        /\ currently_recording
        /\ HitRead
        /\ last_timer = Some(ClockRead)
        /\ now - recording_start_time[1] > 15) =>
          log'.events = <<ActionEnded("HitDetected")>>]_vars

\* The red light with the clock still at 2:59, 16 seconds or more after the
\* start: the action ended for the hit.  (The extraction raised, so
\* last_timer still shows the previous clock.)
C21_Witness ==
    /\ log.op = "serial"
    /\ log.events = <<ActionEnded("HitDetected")>>
    /\ log.raised
    /\ data /= None
    /\ data[1].lights = 4
    /\ last_timer = Some(data[1].minutes * 60 + data[1].seconds)
    /\ now - recording_start_time[1] > 15

\* C22: whenever the detector ends an action it queries the buffer from one
\* second before recording_start_time to one second after the current time,
\* and the window's start lies before its end.
C22_ClipWindow ==
    [][(Processed /\ log'.clip /= None) =>
          /\ recording_start_time /= None
          /\ log'.clip[1].buffer_start = recording_start_time[1] - 1
          /\ log'.clip[1].buffer_end = now + 1
          /\ log'.clip[1].buffer_start < log'.clip[1].buffer_end]_vars

\* An action started at second 1 and ended, with the call returning, at
\* second 16: the window is [0, 17].
C22_Witness ==
    /\ log.op = "serial"
    /\ log.clip /= None
    /\ ~log.raised
    /\ recording_start_time = Some(1)
    /\ now = 16
    /\ log.clip[1].buffer_start = 0
    /\ log.clip[1].buffer_end = 17

C24_EveryFrameBuffered ==
    [][(log'.op = "capture" /\ frames_read' = frames_read + 1) =>
          /\ video_buffer' /= <<>>
          /\ video_buffer'[Len(video_buffer')] = <<frames_read', now>>
          /\ video_thread' = "alive"]_vars

----------------------------------------------------------------------------
(* The ring buffer on its own (BufSpec): the capture loop fills the buffer *)
(* past its capacity, one frame a second (two in some of the first         *)
(* seconds), and save_video_clip is applied to it for a few windows.       *)

\* Entries at the end of the buffer that carry the current time.
FramesNow ==
    LET n == Len(video_buffer) IN
    IF n = 0 \/ video_buffer[n][2] /= now THEN 0
    ELSE IF n >= 2 /\ video_buffer[n - 1][2] = now THEN 2
    ELSE 1

BufInit ==
    /\ running = TRUE
    /\ fa5_serial = TRUE
    /\ video_thread = "alive"
    /\ serial_thread = "alive"
    /\ width_bound = FALSE
    /\ frames_read = 0
    /\ video_buffer = <<>>
    /\ last_timer = None
    /\ recording_start_time = None
    /\ currently_recording = FALSE
    /\ last_packet = None
    /\ now = 0
    /\ packet = None
    /\ data = None
    /\ log = InitialEffects("start")
    /\ nreads = 0
    /\ sim = FencingState
    /\ main_thread = "returned"
    /\ calls = NoCalls
    /\ NoTestMode

\* The capture loop appends the next frame.
BufCapture ==
    /\ CameraDelivers(TRUE, maxlen + MaxOverflow)
    /\ FramesNow = 0 \/ (FramesNow = 1 /\ now < BurstUntil)
    /\ video_capture_loop(TRUE)

\* A second passes once a frame of the current second is in the buffer.
BufTick ==
    /\ FramesNow >= 1
    /\ now' = now + 1
    /\ log' = NoEffects("tick")
    /\ UNCHANGED <<running, fa5_serial, video_thread, serial_thread, width_bound,
                   frames_read, video_buffer, last_timer, recording_start_time,
                   currently_recording, last_packet, packet, data, nreads, sim,
                   main_thread, calls, replay>>

\* fake_data of the manual 'e' command.
fake_data == [left_score |-> 1, right_score |-> 0, lights |-> 4]

\* The (start_time, end_time) pairs save_video_clip is applied to: windows
\* around the oldest frames, the window [45, 55], and the newest second.
QueryTimes == {<<0, 0>>, <<1, 0>>, <<2, 0>>, <<1, 1>>, <<46, 54>>, <<now, now>>}

\* save_video_clip(start_time, end_time, fake_data) on the buffer as it is.
BufQuery(start_time, end_time) ==
    /\ log.op /= "query"
    /\ log' = Effects("query", FALSE, <<>>,
                      Some(save_video_clip(start_time, end_time, fake_data)),
                      FALSE)
    /\ UNCHANGED <<running, fa5_serial, video_thread, serial_thread, width_bound,
                   frames_read, video_buffer, last_timer, recording_start_time,
                   currently_recording, last_packet, now, packet, data, nreads,
                   sim, main_thread, calls, replay>>

BufNext ==
    \/ BufCapture
    \/ BufTick
    \/ \E q \in QueryTimes : BufQuery(q[1], q[2])

BufSpec == BufInit /\ [][BufNext]_vars

\* The positions of the buffer whose timestamp lies in [lo, hi].
InWindow(lo, hi) ==
    {i \in DOMAIN video_buffer : lo <= video_buffer[i][2] /\ video_buffer[i][2] <= hi}

\* C9: the query returns the buffered frames whose timestamp t satisfies
\* window_start <= t <= window_end, each once, in the order they were
\* appended (frames are numbered in the order the camera delivered them).
C9_WindowQuery ==
    log.op = "query" =>
        LET q == log.clip[1]
            hits == InWindow(q.buffer_start, q.buffer_end)
        IN  /\ Len(q.frames) = Cardinality(hits)
            /\ {q.frames[k] : k \in DOMAIN q.frames}
                   = {video_buffer[i][1] : i \in hits}
            /\ \A k \in 1..(Len(q.frames) - 1) : q.frames[k] < q.frames[k + 1]

\* Frames at timestamps 0..100, one a second: the query for [45, 55] returned
\* the eleven frames of timestamps 45..55, in ascending order.
C9_Witness ==
    /\ log.op = "query"
    /\ frames_read = 101
    /\ \A i \in 1..101 : video_buffer[i] = <<i, i - 1>>
    /\ log.clip[1].buffer_start = 45
    /\ log.clip[1].buffer_end = 55
    /\ log.clip[1].frames = <<46, 47, 48, 49, 50, 51, 52, 53, 54, 55, 56>>

\* C10: after every append the buffer holds at most 1800 entries, the
\* min(n, 1800) entries appended last, in the order of their appending and as
\* they were appended: what it held before, less the oldest entry if it was
\* full, followed by the new entry.
C10_BoundedFifo ==
    [][log'.op = "capture" =>
          LET old == Len(video_buffer)
              new == Len(video_buffer')
              dropped == old + 1 - new
          IN  /\ new <= 1800
              /\ new = IF frames_read' <= 1800 THEN frames_read' ELSE 1800
              /\ dropped = IF old = 1800 THEN 1 ELSE 0
              /\ video_buffer'[new] = <<frames_read', now>>
              /\ \A i \in 1..(new - 1) : video_buffer'[i] = video_buffer[i + dropped]
              /\ \A i \in 1..new : video_buffer'[i][1] = frames_read' - new + i]_vars

\* 1801 frames appended: 1800 are left and only the first one is gone.
C10_Witness ==
    /\ frames_read = 1801
    /\ Len(video_buffer) = 1800
    /\ video_buffer[1][1] = 2
    /\ video_buffer[1800][1] = 1801

----------------------------------------------------------------------------
(* The clip extractor around its threshold of ten frames (ClipSpec): the   *)
(* capture loop buffers one or two frames a second, and save_video_clip is *)
(* called at the current time for an action started at any earlier second. *)

\* The capture loop appends the next frame, at most two a second.
ClipCapture ==
    /\ CameraDelivers(TRUE, MaxClipFrames)
    /\ FramesNow < 2
    /\ video_capture_loop(TRUE)

ClipNext ==
    \/ ClipCapture
    \/ BufTick
    \/ \E start_time \in 0..now : BufQuery(start_time, now)

ClipSpec == BufInit /\ [][ClipNext]_vars

\* C11: save_video_clip invokes the encoder, and writes to it the frames the
\* window query returned, exactly when the buffer holds at least 10 frames in
\* the window; with 9 or fewer it returns with no encoder invoked and nothing
\* written.
C11_EncoderIffTenFrames ==
    log.op = "query" =>
        LET q == log.clip[1]
            n == Cardinality(InWindow(q.buffer_start, q.buffer_end))
        IN  /\ q.encoded <=> n >= 10
            /\ n >= 10 => Len(q.written) = n /\ q.written = q.frames
            /\ n <= 9 => q.written = <<>>

\* A call whose window holds exactly ten frames: the encoder was invoked.
C11_Witness ==
    /\ log.op = "query"
    /\ Cardinality(InWindow(log.clip[1].buffer_start, log.clip[1].buffer_end)) = 10
    /\ log.clip[1].encoded
    /\ Len(log.clip[1].written) = 10

----------------------------------------------------------------------------
(* The recorder with records that keep arriving (LiveSpec): every read is  *)
(* counted, time passes until MaxTime, and the telemetry loop, which polls *)
(* the port without pause, goes on reading.                                *)

\* An iteration of the telemetry loop, counted.
LiveRead(p, fail) == serial_monitoring_loop(p, fail) /\ nreads' = 1 - nreads

LiveNext ==
    \/ \E connected \in BOOLEAN : start(connected)
    \/ \E ret \in BOOLEAN : Capture(ret)
    \/ \E p \in Records, fail \in BOOLEAN : LiveRead(p, fail)
    \/ Tick

LiveSpec ==
    /\ Init
    /\ [][LiveNext]_vars
    /\ WF_vars(Tick)
    /\ WF_vars(\E p \in Records, fail \in BOOLEAN : LiveRead(p, fail))

\* The detector is Recording for longer than the timeout, the record last
\* read was accepted, carries the combined clock c and no valid-hit bit, and
\* the last step was no extraction that raised.
HaltedRecording(c) ==
    /\ currently_recording
    /\ now - recording_start_time[1] > TIMEOUT
    /\ data /= None
    /\ data[1].minutes * 60 + data[1].seconds = c
    /\ (data[1].lights \div 4) % 4 = 0
    /\ ~log.raised

\* C8, as the specification states it: once every record carries the same
\* combined clock and no valid-hit bit, the detector does not go on
\* Recording for ever while records keep arriving: it is not so that from
\* some point on it is Recording past the timeout with the clock halted.
C8_HaltedClockTimesOut ==
    \A c \in {180, 179} : []<>(~HaltedRecording(c))

----------------------------------------------------------------------------
(* The threads step by step (ThreadSpec): the capture thread, the          *)
(* telemetry thread and the manual-control loop of the thread that called  *)
(* start().  A call of save_video_clip is no longer one step: it creates   *)
(* an iterator over the buffer and asks it for one entry after the other,  *)
(* and the other threads run in between.                                   *)

\* What the iterator of a deque remembers of the deque to tell whether it
\* was mutated: every append changes the newest entry.
deque_state(buf) == IF buf = <<>> THEN 0 ELSE buf[Len(buf)][1]

\* save_video_clip(start_time, end_time, score_data) on entering its loop
\* over self.video_buffer.
call_frame(start_time, end_time, score_data) ==
    [start_time |-> start_time, end_time |-> end_time,
     score_data |-> score_data,
     buffer_start |-> start_time - PADDING, buffer_end |-> end_time + PADDING,
     state |-> deque_state(video_buffer), pos |-> 0, clip_frames |-> <<>>]

\* What the call c does after its loop: it returns for fewer than ten
\* frames and writes them to the encoder otherwise.
clip_result(c) ==
    [start_time |-> c.start_time, end_time |-> c.end_time,
     score_data |-> c.score_data,
     buffer_start |-> c.buffer_start, buffer_end |-> c.buffer_end,
     frames |-> c.clip_frames, encoded |-> Len(c.clip_frames) >= MIN_FRAMES,
     written |-> IF Len(c.clip_frames) < MIN_FRAMES THEN <<>> ELSE c.clip_frames]

\* One iteration of the telemetry loop that reads the record p, up to the
\* call of save_video_clip if detect_clip_events makes one.
serial_poll(p) ==
    /\ calls["serial"] = None
    /\ LET d == parse_favero_packet(p) IN
       IF NewData(d) /\ Saves(d[1]) THEN
           /\ running /\ fa5_serial /\ serial_thread = "alive"
           /\ packet' = p
           /\ data' = d
           /\ calls' = [calls EXCEPT !["serial"] =
                            Some(call_frame(recording_start_time[1], now, d[1]))]
           /\ log' = Effects("serial", TRUE,
                             <<ActionEnded(IF HitEndCond(d[1]) THEN "HitDetected"
                                           ELSE "Timeout")>>,
                             None, FALSE)
           /\ UNCHANGED <<running, fa5_serial, video_thread, serial_thread,
                          width_bound, frames_read, video_buffer, last_timer,
                          recording_start_time, currently_recording, last_packet,
                          now, nreads, sim, main_thread, replay>>
       ELSE
           /\ serial_monitoring_loop(p, FALSE)
           /\ UNCHANGED nreads

\* An iteration of the telemetry loop in which the port fails: in_waiting or
\* read raises, the except clause of the loop prints the error and sleeps,
\* and the loop goes round again.
serial_error ==
    /\ running /\ fa5_serial /\ serial_thread = "alive"
    /\ calls["serial"] = None
    /\ log' = Effects("serial", FALSE, <<>>, None, TRUE)
    /\ UNCHANGED <<running, fa5_serial, video_thread, serial_thread, width_bound,
                   frames_read, video_buffer, last_timer, recording_start_time,
                   currently_recording, last_packet, now, packet, data, nreads,
                   sim, main_thread, calls, replay>>

\* The loop of save_video_clip in thread th asks its iterator for the next
\* entry.  The iterator raises RuntimeError (deque mutated during iteration)
\* if the buffer was appended to since the loop began.  In the telemetry
\* thread the exception leaves detect_clip_events and is caught by the
\* loop's except clause; in the manual-control loop nothing catches it and
\* it ends the thread that called start().  After the last entry the call
\* finishes and its caller goes on: currently_recording = False, and in the
\* telemetry thread last_timer and last_packet are assigned; the
\* manual-control loop tests self.running again and start() returns if it is
\* False.
loop_next(th) ==
    /\ calls[th] /= None
    /\ LET c == calls[th][1] IN
       IF deque_state(video_buffer) /= c.state THEN
           /\ calls' = [calls EXCEPT ![th] = None]
           /\ main_thread' = IF th = "main" THEN "crashed" ELSE main_thread
           /\ log' = Effects("extract", FALSE, <<>>, None, TRUE)
           /\ UNCHANGED <<last_timer, currently_recording, last_packet>>
       ELSE IF c.pos < Len(video_buffer) THEN
           LET e == video_buffer[c.pos + 1] IN
           /\ calls' = [calls EXCEPT ![th] = Some(
                  [c EXCEPT !.pos = c.pos + 1,
                            !.clip_frames =
                                IF in_window(e[2], c.buffer_start, c.buffer_end)
                                THEN Append(c.clip_frames, e[1])
                                ELSE c.clip_frames])]
           /\ log' = NoEffects("extract")
           /\ UNCHANGED <<last_timer, currently_recording, last_packet,
                          main_thread>>
       ELSE
           /\ calls' = [calls EXCEPT ![th] = None]
           /\ currently_recording' = FALSE
           /\ last_timer' = IF th = "serial"
                            THEN Some(current_timer(c.score_data))
                            ELSE last_timer
           /\ last_packet' = IF th = "serial" THEN Some(c.score_data)
                             ELSE last_packet
           /\ log' = Effects("extract", FALSE, <<>>, Some(clip_result(c)), FALSE)
           /\ main_thread' = IF th = "main" /\ ~running THEN "returned"
                              ELSE main_thread
    /\ UNCHANGED <<running, fa5_serial, video_thread, serial_thread, width_bound,
                   frames_read, video_buffer, recording_start_time, now, packet,
                   data, nreads, sim, replay>>

\* The keys of the manual-control loop.
Keys == {"s", "e", "q", "x"}

\* stop() up to its first join: running = False.  The thread then waits for
\* the capture thread and the telemetry thread to end.
stop ==
    /\ running' = FALSE
    /\ main_thread' = "stopping"
    /\ log' = NoEffects("stop")
    /\ UNCHANGED <<fa5_serial, video_thread, serial_thread, width_bound,
                   frames_read, video_buffer, last_timer, recording_start_time,
                   currently_recording, last_packet, now, packet, data, nreads,
                   sim, calls, replay>>

\* The rest of stop(): both joins return, the port is closed and the camera
\* released.
stop_returns ==
    /\ main_thread = "stopping"
    /\ video_thread /= "alive" /\ serial_thread /= "alive"
    /\ main_thread' = "stopped"
    /\ log' = NoEffects("stop")
    /\ UNCHANGED <<running, fa5_serial, video_thread, serial_thread, width_bound,
                   frames_read, video_buffer, last_timer, recording_start_time,
                   currently_recording, last_packet, now, packet, data, nreads,
                   sim, calls, replay>>

\* One round of the manual-control loop, which start() enters without a
\* port: the thread waits in input(), which returns `key`.  's' starts
\* recording, 'e' calls save_video_clip if recording, 'q' calls stop().  The
\* loop then tests self.running, which the quit key of the capture loop may
\* have set to False in the meantime, and start() returns if it is False.
manual_control(key) ==
    /\ main_thread = "manual"
    /\ calls["main"] = None
    /\ IF key = "q" THEN stop
       ELSE
           /\ IF key = "s" /\ ~currently_recording THEN
                  /\ recording_start_time' = Some(now)
                  /\ currently_recording' = TRUE
                  /\ UNCHANGED calls
              ELSE IF key = "e" /\ currently_recording THEN
                  /\ calls' = [calls EXCEPT !["main"] =
                        Some(call_frame(recording_start_time[1], now, fake_data))]
                  /\ UNCHANGED <<recording_start_time, currently_recording>>
              ELSE
                  UNCHANGED <<recording_start_time, currently_recording, calls>>
           /\ main_thread' = IF running \/ (key = "e" /\ currently_recording)
                              THEN "manual" ELSE "returned"
           /\ log' = NoEffects("manual")
           /\ UNCHANGED <<running, fa5_serial, video_thread, serial_thread,
                          width_bound, frames_read, video_buffer, last_timer,
                          last_packet, now, packet, data, nreads, sim, replay>>

\* The capture loop finds running False and ends.
video_capture_ends ==
    /\ ~running /\ video_thread = "alive"
    /\ video_thread' = "done"
    /\ log' = NoEffects("capture")
    /\ UNCHANGED <<running, fa5_serial, serial_thread, width_bound, frames_read,
                   video_buffer, last_timer, recording_start_time,
                   currently_recording, last_packet, now, packet, data, nreads,
                   sim, main_thread, calls, replay>>

\* An iteration of the capture loop in which the camera delivers a frame
\* and the quit key is pressed in the video window: the frame is appended
\* and the loop calls stop() in the capture thread.  stop() assigns
\* running = False and calls self.video_thread.join(), and joining the
\* current thread raises RuntimeError: the exception leaves stop() and
\* video_capture_loop and ends the capture thread, with the telemetry thread
\* not joined, the port not closed and the camera not released.
video_capture_quit ==
    /\ running /\ video_thread = "alive"
    /\ CameraDelivers(TRUE, MaxThreadFrames)
    /\ ~(currently_recording /\ ~width_bound)
    /\ frames_read' = frames_read + 1
    /\ video_buffer' = deque_append(video_buffer, <<frames_read + 1, now>>)
    /\ width_bound' = TRUE
    /\ running' = FALSE
    /\ video_thread' = "crashed"
    /\ log' = Effects("stop", FALSE, <<>>, None, TRUE)
    /\ UNCHANGED <<fa5_serial, serial_thread, last_timer, recording_start_time,
                   currently_recording, last_packet, now, packet, data, nreads,
                   sim, main_thread, calls, replay>>

\* The telemetry loop finds running False and ends.
serial_monitoring_ends ==
    /\ ~running /\ serial_thread = "alive"
    /\ calls["serial"] = None
    /\ serial_thread' = "done"
    /\ log' = NoEffects("serial")
    /\ UNCHANGED <<running, fa5_serial, video_thread, width_bound, frames_read,
                   video_buffer, last_timer, recording_start_time,
                   currently_recording, last_packet, now, packet, data, nreads,
                   sim, main_thread, calls, replay>>

\* The records the port delivers in this specification.
ThreadRecords ==
    {create_packet([FencingState EXCEPT !.minutes = c[1], !.seconds = c[2],
                                        !.lights = l]) :
        c \in DeviceClocks, l \in {0, 4}}
    \cup {BadChecksum(create_packet(FencingState))}

\* An iteration of the capture loop in this specification.
ThreadCapture(ret) ==
    CameraDelivers(ret, MaxThreadFrames) /\ video_capture_loop(ret)

ThreadNext ==
    \/ \E connected \in BOOLEAN : start(connected)
    \/ \E ret \in BOOLEAN : ThreadCapture(ret)
    \/ \E p \in ThreadRecords : serial_poll(p)
    \/ serial_error
    \/ \E th \in Threads : loop_next(th)
    \/ \E key \in Keys : manual_control(key)
    \/ stop_returns
    \/ video_capture_ends
    \/ video_capture_quit
    \/ serial_monitoring_ends
    \/ Tick

ThreadSpec == Init /\ [][ThreadNext]_vars

\* A step of the loop of save_video_clip, in either thread.
ExtractStep == log'.op = "extract"
\* The camera delivered no frame to the capture loop.
CameraFailed ==
    /\ running /\ video_thread = "alive"
    /\ log'.op = "capture"
    /\ frames_read' = frames_read
\* The port raised in the telemetry loop.
TransportFailed == log'.op = "serial" /\ log'.raised

\* C12, as the specification states it: whatever the capture loop appends
\* while save_video_clip iterates over the buffer, no step of the iteration
\* fails, and the call, once finished, has collected the frames of the
\* buffer that lie in its window, in order.
C12_QueryUnderAppend ==
    [][ExtractStep =>
          /\ ~log'.raised
          /\ log'.clip /= None =>
                 log'.clip[1].frames =
                     clip_frames(video_buffer', log'.clip[1].buffer_start,
                                 log'.clip[1].buffer_end)]_vars

\* C15, as the specification states it: a failed camera read ends the
\* capture loop and leaves the telemetry thread as it is, and a failure of
\* the port ends the telemetry loop and leaves the capture thread as it is.
C15_SourceFailureEndsOwnLoop ==
    [][/\ CameraFailed =>
              /\ video_thread' = "done"
              /\ serial_thread' = serial_thread
       /\ TransportFailed =>
              /\ serial_thread' = "done"
              /\ video_thread' = video_thread]_vars

\* C16: at most one call of save_video_clip is in progress, and the
\* manual-control loop and the telemetry thread never exist in the same run:
\* a call from one of them means the other never started.
C16_OneExtractionInFlight ==
    /\ Cardinality({th \in Threads : calls[th] /= None}) <= 1
    /\ main_thread \in {"manual", "stopping", "stopped", "crashed"}
           => serial_thread = "none"
    /\ serial_thread /= "none" => main_thread = "returned"
    /\ calls["main"] /= None => serial_thread = "none"
    /\ calls["serial"] /= None => main_thread = "returned"

\* A call from the manual-control loop is half way through the buffer while
\* the capture thread is alive.
C16_Witness ==
    /\ calls["main"] /= None
    /\ calls["main"][1].pos = 1
    /\ video_thread = "alive"
    /\ Len(video_buffer) = 2

\* A step in which a thread calls stop(): the steps of stop() are those of
\* the call and, in the thread that called start(), its return from the
\* joins.
StopCalled == log'.op = "stop" /\ main_thread /= "stopping"

\* C25, as the specification states it: a call of stop(), from the
\* manual-control loop or from the quit key of the capture loop, sets running
\* to False and runs on without failing.
C25_StopRunsToCompletion ==
    [][StopCalled => running' = FALSE /\ ~log'.raised]_vars

\* C26, as the specification states it: the lifecycle events alternate,
\* beginning with ActionStarted: an ActionStarted follows no event or an
\* ActionEnded, and an ActionEnded follows an ActionStarted.
C26_EventsAlternate ==
    \A i \in 1..Len(log.events) :
        LET before == IF i = 1 THEN log.previous ELSE log.events[i - 1].type
        IN  IF log.events[i].type = "ActionStarted"
            THEN before \in {"None", "ActionEnded"}
            ELSE before = "ActionStarted"

\* C27: while the detector is Recording, recording_start_time is set and is
\* not later than the current time, whether the recording was started by the
\* telemetry or by the manual-control loop.
C27_RecordingHasStartTime ==
    currently_recording =>
        /\ recording_start_time /= None
        /\ recording_start_time[1] <= now

\* The detector is Recording, started by the telemetry at an earlier time,
\* and the telemetry loop has just read another record.
C27_Witness ==
    /\ currently_recording
    /\ serial_thread = "alive"
    /\ log.op = "serial"
    /\ log.detect
    /\ log.events = <<>>
    /\ recording_start_time /= None
    /\ recording_start_time[1] < now

----------------------------------------------------------------------------
(* The recorder of fencing_recorder.py (ReplaySpec): the same class with a *)
(* test mode, in which the telemetry loop takes its records from a file or *)
(* generates them.  In this file the body of detect_clip_events follows    *)
(* the return statement of simulate_realistic_packet and the class has no  *)
(* method of that name.                                                    *)

\* The scenarios of create_test_data_file:
\* (minutes, seconds, left_score, right_score, lights).
scenarios ==
    << <<3, 0, 0, 0, 0>>, <<2, 59, 0, 0, 0>>, <<2, 58, 0, 0, 0>>,
       <<2, 57, 1, 0, 4>>, <<2, 57, 1, 0, 0>>,
       <<2, 55, 1, 1, 8>>, <<2, 55, 1, 1, 0>>,
       <<2, 50, 2, 1, 12>>, <<2, 50, 2, 1, 0>> >>

\* The bytes of the packets of the first n scenarios, one after the other.
RECURSIVE scenario_bytes(_)
scenario_bytes(n) ==
    IF n = 0 THEN <<>>
    ELSE LET sc == scenarios[n] IN
         scenario_bytes(n - 1) \o
         create_packet([FencingState EXCEPT !.minutes = sc[1], !.seconds = sc[2],
                                            !.left_score = sc[3],
                                            !.right_score = sc[4],
                                            !.lights = sc[5]])

\* The file create_test_data_file writes: nine packets, ninety bytes.
create_test_data_file == scenario_bytes(Len(scenarios))

\* What connect_scoring_machine finds under test_file: no file, the file
\* of create_test_data_file, or that file cut off in its fourth packet.
TestFiles ==
    {None, create_test_data_file, SubSeq(create_test_data_file, 1, 35)}

\* get_test_packet(): the next ten bytes of test_data, or None at its end.
get_test_packet ==
    IF test_data = None \/ test_position >= Len(test_data) THEN None
    ELSE IF test_position + 10 <= Len(test_data)
         THEN SubSeq(test_data, test_position + 1, test_position + 10)
         ELSE None
\* test_position after get_test_packet().
get_test_packet_position ==
    IF get_test_packet = None THEN test_position ELSE test_position + 10

\* The attributes simulate_realistic_packet sets on its call: _sim_timer
\* counts down from 180 and wraps, a red light adds to _left_score and a
\* green light to _right_score, after the packet is built.
simulate_realistic_state(lights) ==
    LET timer == IF simulated = None THEN 180
                 ELSE IF simulated[1].timer - 1 < 0 THEN 180
                 ELSE simulated[1].timer - 1
        left == IF simulated = None THEN 0 ELSE simulated[1].left_score
        right == IF simulated = None THEN 0 ELSE simulated[1].right_score
    IN  [timer |-> timer,
         left_score |-> IF BitAnd(lights, 4) /= 0 THEN left + 1 ELSE left,
         right_score |-> IF BitAnd(lights, 8) /= 0 THEN right + 1 ELSE right]

\* simulate_realistic_packet(): the packet, `lights` being what the random
\* draws give (0, or one of 0x04, 0x08, 0x0C).
simulate_realistic_packet(lights) ==
    LET timer == simulate_realistic_state(lights).timer
        body == <<MARKER,
                  IF simulated = None THEN 0 ELSE simulated[1].right_score,
                  IF simulated = None THEN 0 ELSE simulated[1].left_score,
                  timer % 60, timer \div 60, lights, 1, 0, 0>>
    IN  Append(body, checksum(body))

\* The constructor FencingVideoRecorder(test_mode=...).
ReplayInit ==
    /\ running = FALSE
    /\ fa5_serial = FALSE
    /\ video_thread = "none"
    /\ serial_thread = "none"
    /\ width_bound = FALSE
    /\ frames_read = 0
    /\ video_buffer = <<>>
    /\ last_timer = None
    /\ recording_start_time = None
    /\ currently_recording = FALSE
    /\ last_packet = None
    /\ now = 0
    /\ packet = None
    /\ data = None
    /\ log = InitialEffects("init")
    /\ nreads = 0
    /\ sim = FencingState
    /\ main_thread = "init"
    /\ calls = NoCalls
    /\ test_mode \in BOOLEAN
    /\ test_data = None
    /\ test_position = 0
    /\ simulated = None

\* start() of fencing_recorder.py: in test mode connect_scoring_machine
\* loads the test file if there is one and opens no port, and the telemetry
\* thread is created; otherwise as in server.py.
fr_start(connected, file) ==
    /\ ~running /\ video_thread = "none"
    /\ running' = TRUE
    /\ video_thread' = "alive"
    /\ IF test_mode THEN
           /\ test_data' = file
           /\ fa5_serial' = FALSE
           /\ serial_thread' = "alive"
           /\ main_thread' = "returned"
       ELSE
           /\ test_data' = test_data
           /\ fa5_serial' = connected
           /\ serial_thread' = IF connected THEN "alive" ELSE "none"
           /\ main_thread' = IF connected THEN "returned" ELSE "manual"
    /\ log' = NoEffects("start")
    /\ UNCHANGED <<width_bound, frames_read, video_buffer, last_timer,
                   recording_start_time, currently_recording, last_packet, now,
                   packet, data, nreads, sim, calls, test_mode, test_position,
                   simulated>>

\* One iteration of serial_monitoring_loop of fencing_recorder.py (an empty
\* test_data counts as none, as in `if self.test_data`).  The
\* packet comes from the test file, from simulate_realistic_packet or, p
\* being ten bytes waiting at the port, from the port.  For an accepted
\* snapshot that differs from last_packet the loop calls
\* self.detect_clip_events, which does not exist: AttributeError, caught by
\* the loop's except clause, and last_packet is not assigned.
fr_serial_monitoring_loop(p, lights) ==
    /\ running /\ serial_thread = "alive"
    /\ LET from_file == test_mode /\ test_data /= None
           generated == test_mode /\ ~from_file
           pkt == IF from_file THEN get_test_packet
                  ELSE IF generated THEN simulate_realistic_packet(lights)
                  ELSE p
           d == IF pkt = None THEN None ELSE parse_favero_packet(pkt)
       IN  /\ IF generated /\ simulated /= None
              THEN simulated[1].timer > 180 - MaxSimPackets
              ELSE TRUE
           /\ packet' = pkt
           /\ data' = IF pkt = None THEN data ELSE d
           /\ test_position' =
                  IF from_file THEN get_test_packet_position ELSE test_position
           /\ simulated' = IF generated THEN Some(simulate_realistic_state(lights))
                           ELSE simulated
           /\ log' = IF pkt /= None /\ NewData(d)
                     THEN Effects("serial", FALSE, <<>>, None, TRUE)
                     ELSE NoEffects("serial")
    /\ UNCHANGED <<running, fa5_serial, video_thread, serial_thread, width_bound,
                   frames_read, video_buffer, last_timer, recording_start_time,
                   currently_recording, last_packet, now, nreads, sim,
                   main_thread, calls, test_mode, test_data>>

\* The lights simulate_realistic_packet draws.
SimulatedLights == {0, 4, 8, 12}

ReplayNext ==
    \/ \E connected \in BOOLEAN, file \in TestFiles : fr_start(connected, file)
    \/ \E p \in Records, lights \in SimulatedLights :
           fr_serial_monitoring_loop(p, lights)
    \/ \E ret \in BOOLEAN : Capture(ret)

ReplaySpec == ReplayInit /\ [][ReplayNext]_vars

\* C18, as the specification states it: when the telemetry loop has got a
\* record whose accepted snapshot differs from the last stored one, the
\* detector is run on it and the snapshot is then stored as last_packet.
C18_SnapshotDrivesDetector ==
    [][(/\ log'.op = "serial"
        /\ packet' /= None
        /\ data' /= None
        /\ data' /= last_packet) =>
          /\ log'.detect
          /\ ~log'.raised
          /\ last_packet' = data']_vars

----------------------------------------------------------------------------
(* The simulator of src/sim.py: the operations of FA5Simulator on its      *)
(* state, as the commands of interactive_simulation and the loop of        *)
(* run_simulation_loop call them.  SimSpec is a bout with its clock;       *)
(* ScoreSpec is a long bout, in which the left fencer goes on scoring and  *)
(* the packet command builds the record of the state.                      *)

SimFrame ==
    UNCHANGED <<running, fa5_serial, video_thread, serial_thread, width_bound,
                frames_read, video_buffer, last_timer, recording_start_time,
                currently_recording, last_packet, now, data, nreads,
                main_thread, calls, replay>>

\* The simulator after construction: sim = FencingState().
SimInit == Init

\* The command loop is still running: no command has raised.
sim_alive == ~log.raised

\* A command other than `packet`: the state becomes st, and no record is
\* built.
sim_command(op, st) ==
    /\ sim' = st
    /\ packet' = None
    /\ log' = NoEffects(op)
    /\ SimFrame

start_timer ==
    /\ sim_alive
    /\ sim_command("start_timer", [sim EXCEPT !.timer_running = TRUE])

stop_timer ==
    /\ sim_alive
    /\ sim_command("stop_timer", [sim EXCEPT !.timer_running = FALSE])

simulate_hit(fencer, hit_type) ==
    /\ sim_alive
    /\ sim_command("simulate_hit",
        IF fencer = "left" THEN
            IF hit_type = "valid"
            THEN [sim EXCEPT !.lights = 4, !.left_score = @ + 1]
            ELSE [sim EXCEPT !.lights = 1]
        ELSE IF fencer = "right" THEN
            IF hit_type = "valid"
            THEN [sim EXCEPT !.lights = 8, !.right_score = @ + 1]
            ELSE [sim EXCEPT !.lights = 2]
        ELSE sim)

\* simulate_double_hit, random.choice([True, False]) returning `choice`.
simulate_double_hit(choice) ==
    /\ sim_alive
    /\ sim_command("simulate_double_hit",
        IF choice
        THEN [sim EXCEPT !.lights = 12, !.left_score = @ + 1]
        ELSE [sim EXCEPT !.lights = 12, !.right_score = @ + 1])

clear_lights ==
    /\ sim_alive
    /\ sim_command("clear_lights", [sim EXCEPT !.lights = 0])

\* tick_timer with the seconds set to 60 when a minute is taken off.
tick_timer_sixty(st) ==
    IF st.timer_running THEN
        IF st.seconds > 0 THEN [st EXCEPT !.seconds = @ - 1]
        ELSE IF st.minutes > 0 THEN [st EXCEPT !.minutes = @ - 1, !.seconds = 60]
        ELSE [st EXCEPT !.timer_running = FALSE]
    ELSE st

\* tick_timer on the state st.
tick_timer(st) ==
    IF st.timer_running THEN
        IF st.seconds > 0 THEN [st EXCEPT !.seconds = @ - 1]
        ELSE IF st.minutes > 0 THEN [st EXCEPT !.minutes = @ - 1, !.seconds = 59]
        ELSE [st EXCEPT !.timer_running = FALSE]
    ELSE st

\* The loop of run_simulation_loop advancing the clock.
sim_tick ==
    /\ sim_alive
    /\ sim_command("tick_timer", tick_timer(sim))

reset_bout ==
    /\ sim_alive
    /\ sim_command("reset_bout", FencingState)

\* Every value create_packet assigns to an element of its bytearray is in
\* range(0, 256); the assignment raises ValueError otherwise.
fits_bytearray(st) ==
    \A v \in {st.right_score, st.left_score, st.seconds, st.minutes, st.lights,
              st.matches, st.cards} : v \in 0..255

\* The command `packet`: packet = sim.create_packet().  Nothing in the
\* command loop catches the ValueError of create_packet, which ends it.
sim_create_packet ==
    /\ sim_alive
    /\ IF fits_bytearray(sim)
       THEN /\ packet' = create_packet(sim)
            /\ log' = NoEffects("packet")
       ELSE /\ packet' = None
            /\ log' = Effects("packet", FALSE, <<>>, None, TRUE)
    /\ UNCHANGED sim
    /\ SimFrame

\* A hit in a bout in which the left fencer scores at most `left` points and
\* the right fencer at most `right`.
BoutHit(fencer, hit_type, left, right) ==
    /\ hit_type = "valid" =>
           IF fencer = "left" THEN sim.left_score < left
           ELSE sim.right_score < right
    /\ simulate_hit(fencer, hit_type)

BoutDoubleHit(choice, left, right) ==
    /\ IF choice THEN sim.left_score < left ELSE sim.right_score < right
    /\ simulate_double_hit(choice)

Fencers == {"left", "right"}
HitTypes == {"valid", "off-target"}

SimNext ==
    \/ start_timer
    \/ stop_timer
    \/ \E fencer \in Fencers, hit_type \in HitTypes :
           BoutHit(fencer, hit_type, MaxHits, MaxHits)
    \/ \E choice \in BOOLEAN : BoutDoubleHit(choice, MaxHits, MaxHits)
    \/ clear_lights
    \/ sim_tick
    \/ reset_bout

SimSpec == SimInit /\ [][SimNext]_vars

ScoreNext ==
    \/ \E fencer \in Fencers, hit_type \in HitTypes :
           BoutHit(fencer, hit_type, MaxScore, MaxHits)
    \/ \E choice \in BOOLEAN : BoutDoubleHit(choice, MaxScore, MaxHits)
    \/ clear_lights
    \/ reset_bout
    \/ sim_create_packet

ScoreSpec == SimInit /\ [][ScoreNext]_vars

\* C28: tick_timer leaves the clock as it is when the timer is not running;
\* when it is running and the combined clock is above 0, the combined clock
\* goes down by exactly 1 with the seconds in 0..59; when it is running at
\* 0:00, the timer stops and the clock stays at 0:00.  No operation makes the
\* clock negative, and none but reset_bout makes it larger.
C28_SimulatorClock ==
    [][/\ log'.op = "tick_timer" =>
              /\ ~sim.timer_running =>
                     /\ sim'.minutes = sim.minutes
                     /\ sim'.seconds = sim.seconds
              /\ (sim.timer_running /\ current_timer(sim) > 0) =>
                     /\ current_timer(sim') = current_timer(sim) - 1
                     /\ sim'.seconds \in 0..59
              /\ (sim.timer_running /\ current_timer(sim) = 0) =>
                     /\ ~sim'.timer_running
                     /\ sim'.minutes = 0
                     /\ sim'.seconds = 0
       /\ sim'.minutes >= 0
       /\ sim'.seconds >= 0
       /\ current_timer(sim') > current_timer(sim) =>
              log'.op = "reset_bout"]_vars

\* The clock has run from 3:00 down to 0:00 and the tick at 0:00 has stopped
\* the timer.
C28_Witness ==
    /\ log.op = "tick_timer"
    /\ sim.minutes = 0
    /\ sim.seconds = 0
    /\ ~sim.timer_running
    /\ sim.left_score = 1

\* C29, as the specification states it: after any sequence of simulator
\* operations, create_packet returns a record of 10 bytes that
\* parse_favero_packet accepts.
C29_PacketAlwaysAccepted ==
    log.op = "packet" =>
        /\ ~log.raised
        /\ Len(packet) = PACKET_LEN
        /\ parse_favero_packet(packet) /= None

====
